---- MODULE Spec2Model ----
(***************************************************************************)
(* Model of KeyRotator (aws-key-rotator 1.1.1): rotateKeys lists the keys  *)
(* of an IAM user, creates a new key (self-healing once by deleting the    *)
(* listed INACTIVE keys when creation fails), hands the new key to the     *)
(* NewKeyHandler (deleting it again when the handler rejects) and finally  *)
(* deletes every listed key.  The IAM service is the environment: it holds *)
(* the key set, caps it at MaxKeys and answers every request with success  *)
(* or an error.  Requests of one deleteKeys batch are all in flight at     *)
(* once and Promise.all settles the batch.                                 *)
(***************************************************************************)
EXTENDS Integers, FiniteSets, Sequences, TLC

VARIABLES
    keys,      \* the IAM user's access keys held by the service: set of [AccessKeyId, Status]
    nextId,    \* the AccessKeyId the service gives to the next created key
    pc,        \* per caller: where its rotateKeys promise chain stands
    listed,    \* per caller: the `keys` argument of performKeyRotation
    newKey,    \* per caller: AccessKeyId of the key created in this run (NoKey if none)
    batch,     \* per caller: deleteAccessKey requests in flight that the chain awaits
    orphans,   \* deleteAccessKey requests in flight whose Promise.all already rejected
    result,    \* per caller: state of the promise rotateKeys returned
    err,       \* per caller: the error captured by the chain (rejection value)
    log,       \* per caller: the calls of the current run, in order
    endKeys,   \* per caller: the key set at the moment the promise settled
    runs,      \* number of rotateKeys calls made so far
    firstKeys, \* the key set the service held before the first call
    filterArg  \* per caller: the filter argument of its latest deleteKeys call

vars == <<keys, nextId, pc, listed, newKey, batch, orphans, result, err, log, endKeys, runs,
          firstKeys, filterArg>>

----------------------------------------------------------------------------
(* Bounds and constants *)

MaxRuns == 2          \* rotateKeys calls in one behaviour
NumCallers == 2       \* callers of rotateKeys in the interleaved specification

MaxKeys == 2          \* the service's cap on keys per user
ACTIVE == "Active"
INACTIVE == "Inactive"
NoKey == 0
NoError == "none"

Statuses == {ACTIVE, INACTIVE}
InitialIds == 1..MaxKeys

KeyIds(ks) == {k.AccessKeyId : k \in ks}
ActiveKeys(ks) == {k \in ks : k.Status = ACTIVE}
InactiveKeys(ks) == {k \in ks : k.Status = INACTIVE}

\* every key set the service can hold before the first run
InitialKeySets ==
    {ks \in SUBSET [AccessKeyId : InitialIds, Status : Statuses] :
        /\ Cardinality(ks) <= MaxKeys
        /\ Cardinality(KeyIds(ks)) = Cardinality(ks)}

Callers == DOMAIN pc

----------------------------------------------------------------------------
(* The IAM service *)

\* outcomes of createAccessKey: rejected at the cap, otherwise created or a service error
CreateOutcomes(ks) ==
    IF Cardinality(ks) >= MaxKeys THEN {"LimitExceeded"} ELSE {"ok", "CreateError"}

\* the key a successful createAccessKey adds
CreatedKey(id) == [AccessKeyId |-> id, Status |-> ACTIVE]

\* what deleteAccessKey answers for a key that does not exist: the service's contract is
\* an error (NoSuchEntity); a lenient service, like the one of the tests, reports success
MissingKeyOutcomes == {"NoSuchEntity", "ok"}

\* outcomes of deleteAccessKey(id): an existing key is removed unless the call errors
DeleteOutcomes(ks, id) ==
    IF id \in KeyIds(ks) THEN {"ok", "DeleteError"} ELSE MissingKeyOutcomes

\* the key set after deleteAccessKey(id) answered with outcome o
AfterDelete(ks, id, o) ==
    IF o = "ok" THEN {k \in ks : k.AccessKeyId # id} ELSE ks

----------------------------------------------------------------------------
(* KeyRotator *)

\* variants of the filter: one that lets every key through, one that picks the ACTIVE keys
SelfHealFilterAll(key) == TRUE
SelfHealFilterActive(key) == key.Status = ACTIVE

\* the filter createNewKey passes to deleteKeys
SelfHealFilter(key) == key.Status = INACTIVE

\* variant: the filter is not applied
keysToDeleteUnfiltered(ks, hasFilter, filter) == ks

\* deleteKeys: the keys a deletion is issued for
keysToDelete(ks, hasFilter, filter) ==
    IF hasFilter THEN {k \in ks : filter[k]} ELSE ks

\* the filter argument left out
NoFilter == <<>>

\* the optional filter parameter of deleteKeys
FilterArg(hasFilter, filter) == [hasFilter |-> hasFilter, filter |-> filter]

\* the keys createNewKey deletes before it retries the creation
SelfHealKeys(ks) == keysToDelete(ks, TRUE, [k \in ks |-> SelfHealFilter(k)])

\* variant: the final deletion carries the self-heal filter too
OldKeysInactiveOnly(ks) == keysToDelete(ks, TRUE, [k \in ks |-> k.Status = INACTIVE])

\* the keys performKeyRotation deletes once the new key is handled
OldKeys(ks) == keysToDelete(ks, FALSE, NoFilter)

\* variant: a failed creation is never retried
RetriesCreationNever(attempt) == FALSE

\* variant: every failed creation is answered by self-heal and a retry
RetriesCreationAlways(attempt) == TRUE

\* createNewKey retries the creation only for the first failure
RetriesCreation(attempt) == attempt = "create1"

\* variant: the .then callback runs whatever the outcome
FulfilledAlways(o) == TRUE

\* a promise's .then callback runs exactly when the promise fulfilled
Fulfilled(o) == o = "ok"

\* variants: the handler of handleNewKey runs on every outcome, or on none
RejectedAlways(o) == TRUE
RejectedNever(o) == FALSE

\* a promise's catch handler runs exactly when the promise rejected
Rejected(o) == o # "ok"

\* variant: a failed deletion does not fail the batch
JoinRejectsNever(o) == FALSE

\* Promise.all rejects as soon as one promise of the batch rejects
JoinRejects(o) == o # "ok"

\* variant: the batch resolves with the first deletion that succeeds
JoinResolvesEarly(rest) == TRUE

\* Promise.all resolves once no promise of the batch is pending any more
JoinResolves(rest) == rest = {}

\* variant: the rethrow after the compensating deletion loses the handler's error
RollbackErrorLost(handlerErr) == NoError

\* handleNewKey: the value the chain rejects with once the compensating deletion succeeded
RollbackError(handlerErr) == handlerErr

Event(op, key, res) == [op |-> op, key |-> key, res |-> res]

\* the promise rotateKeys returned settles
Settle(p, res, e, ks) ==
    /\ pc' = [pc EXCEPT ![p] = "done"]
    /\ result' = [result EXCEPT ![p] = res]
    /\ err' = [err EXCEPT ![p] = e]
    /\ endKeys' = [endKeys EXCEPT ![p] = ks]

\* the chain moves on without settling
Goto(p, where) ==
    /\ pc' = [pc EXCEPT ![p] = where]
    /\ UNCHANGED <<result, err, endKeys>>

\* rotateKeys(user) is called: getExistingKeys sends listAccessKeys
rotateKeys(p) ==
    /\ pc[p] \in {"idle", "done"}
    /\ runs < MaxRuns
    /\ runs' = runs + 1
    /\ pc' = [pc EXCEPT ![p] = "list"]
    /\ listed' = [listed EXCEPT ![p] = {}]
    /\ newKey' = [newKey EXCEPT ![p] = NoKey]
    /\ result' = [result EXCEPT ![p] = "pending"]
    /\ err' = [err EXCEPT ![p] = NoError]
    /\ log' = [log EXCEPT ![p] = <<>>]
    /\ endKeys' = [endKeys EXCEPT ![p] = {}]
    /\ UNCHANGED <<keys, nextId, batch, orphans, firstKeys, filterArg>>

\* listAccessKeys answers: on success performKeyRotation sends the first createAccessKey,
\* on failure the catch of rotateKeys rethrows
getExistingKeys(p) ==
    /\ pc[p] = "list"
    /\ \E o \in {"ok", "ListError"} :
        /\ log' = [log EXCEPT ![p] = Append(@, Event("listKeys", NoKey, o))]
        /\ IF Fulfilled(o)
           THEN /\ listed' = [listed EXCEPT ![p] = keys]
                /\ Goto(p, "create1")
           ELSE /\ Settle(p, "rejected", o, keys)
                /\ UNCHANGED listed
    /\ UNCHANGED <<keys, nextId, newKey, batch, orphans, runs, firstKeys, filterArg>>

\* createAccessKey answers (first call or the retry of createNewKey)
createKey(p) ==
    /\ pc[p] \in {"create1", "create2"}
    /\ \E o \in CreateOutcomes(keys) :
        LET created == IF o = "ok" THEN nextId ELSE NoKey IN
        /\ keys' = IF o = "ok" THEN keys \cup {CreatedKey(nextId)} ELSE keys
        /\ nextId' = IF o = "ok" THEN nextId + 1 ELSE nextId
        /\ IF Fulfilled(o)
           THEN \* the new key goes to handleNewKey
                /\ newKey' = [newKey EXCEPT ![p] = created]
                /\ log' = [log EXCEPT ![p] = Append(@, Event("createKey", created, o))]
                /\ Goto(p, "handle")
                /\ UNCHANGED <<batch, filterArg>>
           ELSE IF RetriesCreation(pc[p])
           THEN \* catch of createNewKey: deleteKeys(INACTIVE) then createKey again
                LET targets == KeyIds(SelfHealKeys(listed[p])) IN
                /\ log' = [log EXCEPT ![p] =
                              Append(@, Event("createKey", NoKey, o)) \o
                              <<Event("selfHeal", NoKey, "ok")>>]
                /\ batch' = [batch EXCEPT ![p] = targets]
                /\ filterArg' = [filterArg EXCEPT ![p] =
                                    FilterArg(TRUE, [k \in listed[p] |-> SelfHealFilter(k)])]
                /\ Goto(p, IF targets = {} THEN "create2" ELSE "healWait")
                /\ UNCHANGED newKey
           ELSE \* the retry failed: the error reaches the caller
                /\ log' = [log EXCEPT ![p] = Append(@, Event("createKey", NoKey, o))]
                /\ Settle(p, "rejected", o, keys)
                /\ UNCHANGED <<newKey, batch, filterArg>>
    /\ UNCHANGED <<listed, orphans, runs, firstKeys>>

\* the NewKeyHandler promise settles
handleNewKey(p) ==
    /\ pc[p] = "handle"
    /\ \E o \in {"ok", "HandlerError"} :
        /\ log' = [log EXCEPT ![p] = Append(@, Event("newKeyHandler", newKey[p], o))]
        /\ IF ~Rejected(o)
           THEN \* performKeyRotation: deleteKeys(user, keys)
                LET targets == KeyIds(OldKeys(listed[p])) IN
                /\ batch' = [batch EXCEPT ![p] = targets]
                /\ filterArg' = [filterArg EXCEPT ![p] = FilterArg(FALSE, NoFilter)]
                /\ IF targets = {}
                   THEN Settle(p, "resolved", NoError, keys)
                   ELSE Goto(p, "cleanupWait")
           ELSE \* catch of handleNewKey: deleteKey(user, key), err kept for the rethrow
                /\ batch' = [batch EXCEPT ![p] = {newKey[p]}]
                /\ pc' = [pc EXCEPT ![p] = "rollbackWait"]
                /\ err' = [err EXCEPT ![p] = o]
                /\ UNCHANGED <<result, endKeys, filterArg>>
    /\ UNCHANGED <<keys, nextId, listed, newKey, orphans, runs, firstKeys>>

\* one deleteAccessKey of the awaited batch answers; Promise.all rejects with the
\* first failure and resolves with the last success
deleteKey(p, id) ==
    /\ pc[p] \in {"healWait", "cleanupWait", "rollbackWait", "deleteWait"}
    /\ id \in batch[p]
    /\ \E o \in DeleteOutcomes(keys, id) :
        LET rest == batch[p] \ {id}
            after == AfterDelete(keys, id, o) IN
        /\ keys' = after
        /\ log' = [log EXCEPT ![p] = Append(@, Event("deleteKey", id, o))]
        /\ IF JoinRejects(o)
           THEN \* the batch rejects; the other requests stay in flight
                /\ batch' = [batch EXCEPT ![p] = {}]
                /\ orphans' = orphans \cup rest
                /\ Settle(p, "rejected", o, after)
           ELSE IF ~JoinResolves(rest)
           THEN /\ batch' = [batch EXCEPT ![p] = rest]
                /\ Goto(p, pc[p])
                /\ UNCHANGED orphans
           ELSE /\ batch' = [batch EXCEPT ![p] = {}]
                /\ orphans' = orphans \cup rest
                /\ CASE pc[p] = "healWait" -> Goto(p, "create2")
                     [] pc[p] = "cleanupWait" -> Settle(p, "resolved", NoError, after)
                     [] pc[p] = "rollbackWait" ->
                            Settle(p, "rejected", RollbackError(err[p]), after)
                     [] pc[p] = "deleteWait" -> Settle(p, "resolved", NoError, after)
    /\ UNCHANGED <<nextId, listed, newKey, runs, firstKeys, filterArg>>

\* a deleteAccessKey nobody awaits any more answers
orphanDelete(id) ==
    /\ id \in orphans
    /\ \E o \in DeleteOutcomes(keys, id) :
        keys' = AfterDelete(keys, id, o)
    /\ orphans' = orphans \ {id}
    /\ UNCHANGED <<nextId, pc, listed, newKey, batch, result, err, log, endKeys, runs,
                   firstKeys, filterArg>>

----------------------------------------------------------------------------
(* Specifications *)

InitFor(callers) ==
    /\ keys \in InitialKeySets
    /\ nextId = MaxKeys + 1
    /\ pc = [p \in callers |-> "idle"]
    /\ listed = [p \in callers |-> {}]
    /\ newKey = [p \in callers |-> NoKey]
    /\ batch = [p \in callers |-> {}]
    /\ orphans = {}
    /\ result = [p \in callers |-> "pending"]
    /\ err = [p \in callers |-> NoError]
    /\ log = [p \in callers |-> <<>>]
    /\ endKeys = [p \in callers |-> {}]
    /\ runs = 0
    /\ firstKeys = keys
    /\ filterArg = [p \in callers |-> FilterArg(FALSE, NoFilter)]

\* one caller, its runs one after the other
Init == InitFor({1})

Next ==
    \/ \E p \in Callers : rotateKeys(p)
    \/ \E p \in Callers : getExistingKeys(p)
    \/ \E p \in Callers : createKey(p)
    \/ \E p \in Callers : handleNewKey(p)
    \/ \E p \in Callers : \E id \in batch[p] : deleteKey(p, id)
    \/ \E id \in orphans : orphanDelete(id)

Spec == Init /\ [][Next]_vars

\* every remote call and the handler eventually answer; the caller need not call again
FairSpec ==
    /\ Spec
    /\ \A p \in {1} :
          /\ WF_vars(getExistingKeys(p))
          /\ WF_vars(createKey(p))
          /\ WF_vars(handleNewKey(p))
          /\ WF_vars(\E id \in batch[p] : deleteKey(p, id))

\* rotateKeys called for the same user by NumCallers callers, their runs interleaved
ConcurrentInit == InitFor(1..NumCallers)

ConcurrentSpec == ConcurrentInit /\ [][Next]_vars

\* deleteKeys on its own: called with any key list and any filter, or none
deleteKeys(p) ==
    /\ pc[p] = "deleteKeys"
    /\ \E hasFilter \in BOOLEAN :
       \E filter \in (IF hasFilter THEN [listed[p] -> BOOLEAN] ELSE {NoFilter}) :
        LET targets == KeyIds(keysToDelete(listed[p], hasFilter, filter)) IN
        /\ filterArg' = [filterArg EXCEPT ![p] = FilterArg(hasFilter, filter)]
        /\ batch' = [batch EXCEPT ![p] = targets]
        /\ IF targets = {}
           THEN Settle(p, "resolved", NoError, keys)
           ELSE Goto(p, "deleteWait")
    /\ UNCHANGED <<keys, nextId, listed, newKey, orphans, log, runs, firstKeys>>

\* the key lists deleteKeys is called with: any keys, held by the service or not
KeyLists == InitialKeySets

DeleteKeysInit ==
    /\ keys \in InitialKeySets
    /\ nextId = MaxKeys + 1
    /\ pc = [p \in {1} |-> "deleteKeys"]
    /\ listed \in [{1} -> KeyLists]
    /\ newKey = [p \in {1} |-> NoKey]
    /\ batch = [p \in {1} |-> {}]
    /\ orphans = {}
    /\ result = [p \in {1} |-> "pending"]
    /\ err = [p \in {1} |-> NoError]
    /\ log = [p \in {1} |-> <<>>]
    /\ endKeys = [p \in {1} |-> {}]
    /\ runs = 0
    /\ firstKeys = keys
    /\ filterArg = [p \in {1} |-> FilterArg(FALSE, NoFilter)]

DeleteKeysNext ==
    \/ \E p \in Callers : deleteKeys(p)
    \/ \E p \in Callers : \E id \in batch[p] : deleteKey(p, id)
    \/ \E id \in orphans : orphanDelete(id)

DeleteKeysSpec == DeleteKeysInit /\ [][DeleteKeysNext]_vars

----------------------------------------------------------------------------
(* Vocabulary of the properties *)

\* the run of caller p has ended: its promise settled
Done(p) == pc[p] = "done"
Succeeded(p) == Done(p) /\ result[p] = "resolved"
Failed(p) == Done(p) /\ result[p] = "rejected"

\* the run of caller p listed its keys
ListedOk(p) == Len(log[p]) >= 1 /\ log[p][1] = Event("listKeys", NoKey, "ok")

\* the outcomes the run of caller p got from calls of kind op
Results(p, op) == {log[p][i].res : i \in {j \in 1..Len(log[p]) : log[p][j].op = op}}
Calls(p, op) == Cardinality({j \in 1..Len(log[p]) : log[p][j].op = op})

\* no call of the run failed
NoFailure(p) == \A i \in 1..Len(log[p]) : log[p][i].res = "ok"

\* the service failed only as its contract says: creation at the cap, deletion of a
\* key that does not exist
ContractOnly(p) ==
    \A i \in 1..Len(log[p]) : log[p][i].res \notin {"ListError", "CreateError", "DeleteError"}

\* no call to the service failed (the handler may have)
NoServiceFailure(p) ==
    \A i \in 1..Len(log[p]) : log[p][i].res \in {"ok", "HandlerError"}

\* what the run of caller p listed
ListedMixedPair(p) ==
    /\ Cardinality(listed[p]) = 2
    /\ Cardinality(ActiveKeys(listed[p])) = 1
    /\ Cardinality(InactiveKeys(listed[p])) = 1
ListedTwoInactive(p) == Cardinality(listed[p]) = 2 /\ ActiveKeys(listed[p]) = {}
ListedTwoActive(p) == Cardinality(listed[p]) = 2 /\ InactiveKeys(listed[p]) = {}
ListedOneActive(p) == Cardinality(listed[p]) = 1 /\ InactiveKeys(listed[p]) = {}

HandlerOk(p) == Results(p, "newKeyHandler") = {"ok"}
HandlerFailed(p) == Results(p, "newKeyHandler") = {"HandlerError"}
NoDeleteFailed(p) == Results(p, "deleteKey") \subseteq {"ok"}

\* the failures the run of caller p met
Failures(p) == {log[p][i].res : i \in {j \in 1..Len(log[p]) : log[p][j].res # "ok"}}

\* the last call of the run of caller p
LastEvent(p) == log[p][Len(log[p])]

\* the run is the only one so far: no request of an earlier run is in flight during it
SingleRun(p) == runs = 1 /\ pc[p] # "idle"

----------------------------------------------------------------------------
(* Properties *)

\* C1: whenever a run reports success, the user's key set is exactly the key created in
\* this run, ACTIVE, and none of the listed keys remains.
C1_SuccessLeavesOnlyNewKey ==
    \A p \in Callers :
        Succeeded(p) =>
            /\ newKey[p] # NoKey
            /\ endKeys[p] = {CreatedKey(newKey[p])}
            /\ keys = endKeys[p]
            /\ KeyIds(listed[p]) \cap KeyIds(keys) = {}

\* a run that listed an ACTIVE key succeeded
C1_Witness ==
    \E p \in Callers : Succeeded(p) /\ ActiveKeys(listed[p]) # {}

\* C2: if the run listed at least one ACTIVE key, the user holds at least one ACTIVE key in
\* every state during the run and after it, whatever fails.
C2_AlwaysAnActiveKey ==
    \A p \in Callers :
        (ListedOk(p) /\ ActiveKeys(listed[p]) # {}) => ActiveKeys(keys) # {}

\* a run that listed an ACTIVE key failed on the deletion that follows a handler failure
C2_Witness ==
    \E p \in Callers :
        /\ Failed(p) /\ ActiveKeys(listed[p]) # {}
        /\ "HandlerError" \in Results(p, "newKeyHandler")
        /\ "DeleteError" \in Results(p, "deleteKey")

\* C3: a run that listed at most one ACTIVE key and failed does not end with two
\* different ACTIVE keys.
C3_NoTwoActiveAfterError ==
    \A p \in Callers :
        (Failed(p) /\ ListedOk(p) /\ Cardinality(ActiveKeys(listed[p])) <= 1)
            => Cardinality(ActiveKeys(endKeys[p])) <= 1

\* C4 (P1): with no listed key and no failing call the run succeeds and leaves exactly
\* one key, the new one, ACTIVE.
C4_ConvergenceFromEmpty ==
    \A p \in Callers :
        (Done(p) /\ ListedOk(p) /\ listed[p] = {} /\ NoFailure(p)) =>
            /\ Succeeded(p)
            /\ newKey[p] # NoKey
            /\ endKeys[p] = {CreatedKey(newKey[p])}

\* a run on a user without keys ended without a failing call
C4_Witness ==
    \E p \in Callers :
        /\ Done(p) /\ ListedOk(p) /\ listed[p] = {} /\ NoFailure(p)
        /\ Calls(p, "newKeyHandler") = 1

\* C5 (P2/P3): with exactly one listed key, ACTIVE or INACTIVE, and no failing call the
\* run succeeds, the old key is deleted, only the new ACTIVE key remains and self-heal
\* is not entered.
C5_SingleKeyRotates ==
    \A p \in Callers :
        (Done(p) /\ ListedOk(p) /\ Cardinality(listed[p]) = 1 /\ NoFailure(p)) =>
            /\ Succeeded(p)
            /\ newKey[p] # NoKey
            /\ endKeys[p] = {CreatedKey(newKey[p])}
            /\ listed[p] \cap endKeys[p] = {}
            /\ Calls(p, "selfHeal") = 0
            /\ Calls(p, "createKey") = 1
            /\ Calls(p, "deleteKey") = 1

\* a run that listed one INACTIVE key ended without a failing call
C5_Witness ==
    \E p \in Callers :
        /\ Done(p) /\ ListedOk(p) /\ NoFailure(p)
        /\ Cardinality(listed[p]) = 1 /\ InactiveKeys(listed[p]) # {}

\* C6: at the 2-key cap with at least one INACTIVE key, a handler that succeeds and a
\* service that fails only as its contract says, a single run reports success and leaves
\* exactly the new ACTIVE key.
C6_SelfHealCompletesInOneRun ==
    \A p \in Callers :
        (/\ Done(p) /\ SingleRun(p) /\ ListedOk(p)
         /\ Cardinality(listed[p]) = MaxKeys /\ InactiveKeys(listed[p]) # {}
         /\ ContractOnly(p) /\ ~HandlerFailed(p)) =>
            /\ Succeeded(p)
            /\ endKeys[p] = {CreatedKey(newKey[p])}

C8_BothInactiveDeleted ==
    \A p \in Callers :
        (Done(p) /\ SingleRun(p) /\ ListedOk(p) /\ ListedTwoInactive(p) /\ NoDeleteFailed(p)) =>
            KeyIds(listed[p]) \cap KeyIds(endKeys[p]) = {}

\* a run that listed two INACTIVE keys failed although no deletion failed
C8_Witness ==
    \E p \in Callers :
        /\ Failed(p) /\ SingleRun(p) /\ ListedOk(p) /\ ListedTwoInactive(p)
        /\ NoDeleteFailed(p) /\ Calls(p, "deleteKey") >= 2

\* C9: with two ACTIVE keys listed the run fails, the handler is never invoked, no key
\* is deleted and both keys are present and ACTIVE at the end.
C9_TwoActiveUntouched ==
    \A p \in Callers :
        (Done(p) /\ SingleRun(p) /\ ListedOk(p) /\ ListedTwoActive(p)) =>
            /\ Failed(p)
            /\ Calls(p, "newKeyHandler") = 0
            /\ Calls(p, "deleteKey") = 0
            /\ newKey[p] = NoKey
            /\ endKeys[p] = listed[p]
            /\ keys = listed[p]

\* a run that listed two ACTIVE keys ended after two rejected creations
C9_Witness ==
    \E p \in Callers :
        /\ Done(p) /\ SingleRun(p) /\ ListedOk(p) /\ ListedTwoActive(p)
        /\ Calls(p, "createKey") = 2

\* C10 (P6): with one ACTIVE key listed, a failing handler and no failing remote call,
\* the run fails, the new key is deleted again and the original ACTIVE key is present.
C10_HandlerFailureRollsBack ==
    \A p \in Callers :
        (Done(p) /\ ListedOk(p) /\ ListedOneActive(p) /\ HandlerFailed(p) /\ NoServiceFailure(p)) =>
            /\ Failed(p)
            /\ newKey[p] # NoKey
            /\ newKey[p] \notin KeyIds(endKeys[p])
            /\ endKeys[p] = listed[p]
            /\ Event("deleteKey", newKey[p], "ok") = log[p][Len(log[p])]

\* a run that listed one ACTIVE key ended after its handler failed and the new key
\* was deleted
C10_Witness ==
    \E p \in Callers :
        /\ Done(p) /\ ListedOk(p) /\ ListedOneActive(p) /\ HandlerFailed(p)
        /\ NoServiceFailure(p) /\ Calls(p, "deleteKey") = 1

\* C11 as stated: whenever the handler fails, a deletion of the new key is issued and
\* the run fails with the handler's own error, also when that deletion fails.
C11_HandlerErrorAlwaysSurfaced ==
    \A p \in Callers :
        (Done(p) /\ HandlerFailed(p)) =>
            /\ Failed(p)
            /\ LastEvent(p).op = "deleteKey" /\ LastEvent(p).key = newKey[p]
            /\ err[p] = "HandlerError"

\* C11 as amended: whenever the handler fails, exactly one deletion is issued, for the
\* new key, and the run fails; it fails with the handler's error when that deletion
\* succeeded and with the deletion's error when it failed.
C11_HandlerErrorSurfacedUnlessDeleteFails ==
    \A p \in Callers :
        /\ (HandlerFailed(p) /\ ~Done(p)) => (pc[p] = "rollbackWait" /\ batch[p] = {newKey[p]})
        /\ (HandlerFailed(p) /\ Done(p)) =>
              /\ Failed(p)
              /\ newKey[p] # NoKey
              /\ LastEvent(p).op = "deleteKey" /\ LastEvent(p).key = newKey[p]
              /\ log[p][Len(log[p]) - 1].op = "newKeyHandler"
              /\ err[p] = IF LastEvent(p).res = "ok" THEN "HandlerError" ELSE LastEvent(p).res

\* a run ended after its handler failed and the deletion of the new key failed too
C11_Witness ==
    \E p \in Callers :
        /\ Done(p) /\ HandlerFailed(p)
        /\ LastEvent(p) = Event("deleteKey", newKey[p], "DeleteError")

\* C12 as stated: when the handler fails, also after self-heal, the run ends after the
\* compensating deletion and every listed key is still present with its status.
C12_HandlerFailureLeavesListedKeys ==
    \A p \in Callers :
        (Done(p) /\ SingleRun(p) /\ ListedOk(p) /\ HandlerFailed(p)) =>
            /\ Failed(p)
            /\ listed[p] \subseteq endKeys[p]

\* C12 as amended: when the handler fails the run ends after the compensating deletion
\* without a deletion of step 4; every listed key that self-heal did not delete before
\* the creation was retried is still present with its status: all listed keys when the
\* first creation succeeded, the ACTIVE listed keys when self-heal ran.
C12_HandlerFailureLeavesUnhealedKeys ==
    \A p \in Callers :
        (Done(p) /\ SingleRun(p) /\ ListedOk(p) /\ HandlerFailed(p)) =>
            /\ Failed(p)
            /\ LastEvent(p).op = "deleteKey" /\ LastEvent(p).key = newKey[p]
            /\ Calls(p, "deleteKey") =
                  1 + (IF Calls(p, "selfHeal") = 1 THEN Cardinality(InactiveKeys(listed[p])) ELSE 0)
            /\ endKeys[p] \ {CreatedKey(newKey[p])} =
                  IF Calls(p, "selfHeal") = 1 THEN ActiveKeys(listed[p]) ELSE listed[p]

\* a run whose self-heal deleted an INACTIVE key ended after its handler failed
C12_Witness ==
    \E p \in Callers :
        /\ Done(p) /\ SingleRun(p) /\ ListedOk(p) /\ HandlerFailed(p)
        /\ Calls(p, "selfHeal") = 1 /\ InactiveKeys(listed[p]) # {}

\* C14: if the first creation and the retried creation both fail, the run fails with
\* the creation error, the handler is never invoked, no new key exists, no listed ACTIVE
\* key was deleted and the key set is the listed set without its INACTIVE keys.
C14_RetryFailureKeepsActiveKeys ==
    \A p \in Callers :
        (/\ Done(p) /\ SingleRun(p) /\ Calls(p, "createKey") = 2
         /\ "ok" \notin Results(p, "createKey")) =>
            /\ Failed(p)
            /\ LastEvent(p).op = "createKey" /\ err[p] = LastEvent(p).res
            /\ Calls(p, "newKeyHandler") = 0
            /\ newKey[p] = NoKey
            /\ ActiveKeys(listed[p]) \subseteq endKeys[p]
            /\ endKeys[p] = listed[p] \ InactiveKeys(listed[p])
            /\ keys = endKeys[p]

\* a run that listed an ACTIVE and an INACTIVE key ended after two failed creations
C14_Witness ==
    \E p \in Callers :
        /\ Done(p) /\ SingleRun(p) /\ Calls(p, "createKey") = 2
        /\ "ok" \notin Results(p, "createKey")
        /\ ListedMixedPair(p)

\* the run of caller p met a failure other than a first creation that was retried
FailureBeyondRetry(p) ==
    \E i \in 1..Len(log[p]) :
        /\ log[p][i].res # "ok"
        /\ ~(log[p][i].op = "createKey" /\ i = 2)

\* C19: apart from a first creation failure answered by the retry, whenever the listing,
\* the retried creation, the handler or a deletion fails, the run ends in failure and
\* carries the error of one of the operations that failed in the run.
C19_NoFailureSwallowed ==
    \A p \in Callers :
        /\ FailureBeyondRetry(p) => (Failed(p) \/ pc[p] = "rollbackWait")
        /\ (Done(p) /\ FailureBeyondRetry(p)) => (Failed(p) /\ err[p] \in Failures(p))
        /\ Failed(p) => err[p] \in Failures(p)

\* a run failed on a deletion of step 4 after self-heal had answered a failed creation
C19_Witness ==
    \E p \in Callers :
        /\ Failed(p) /\ HandlerOk(p) /\ Calls(p, "selfHeal") = 1
        /\ LastEvent(p).op = "deleteKey" /\ LastEvent(p).res = "DeleteError"

\* the positions of the step-4 deletions in the log of caller p: those after the handler
CleanupEvents(p) ==
    {i \in 1..Len(log[p]) :
        /\ log[p][i].op = "deleteKey"
        /\ \E h \in 1..(i - 1) : log[p][h] = Event("newKeyHandler", newKey[p], "ok")}

\* C17: if a deletion of step 4 fails, the run fails and nothing is rolled back: the new
\* key stays, every listed key whose deletion failed is still present with its status,
\* every listed key whose deletion succeeded stays deleted.
C17_FailedCleanupKeepsState ==
    \A p \in Callers :
        (/\ Done(p) /\ SingleRun(p)
         /\ \E i \in CleanupEvents(p) : log[p][i].res # "ok") =>
            /\ Failed(p)
            /\ CreatedKey(newKey[p]) \in endKeys[p]
            /\ \A i \in CleanupEvents(p) :
                  IF log[p][i].res = "ok"
                  THEN log[p][i].key \notin KeyIds(endKeys[p])
                  ELSE \E k \in listed[p] : k.AccessKeyId = log[p][i].key /\ k \in endKeys[p]

\* createAccessKey requests of the run of caller p, answered or in flight
CreateCalls(p) ==
    Calls(p, "createKey") + (IF pc[p] \in {"create1", "create2"} THEN 1 ELSE 0)

\* the positions of the createKey answers in the log of caller p
CreateEvents(p) == {i \in 1..Len(log[p]) : log[p][i].op = "createKey"}

C13_ListFailureTouchesNothing ==
    [][\A p \in Callers :
          (pc[p] = "list" /\ log'[p] = <<Event("listKeys", NoKey, "ListError")>>) =>
              /\ pc'[p] = "done" /\ result'[p] = "rejected" /\ err'[p] = "ListError"
              /\ keys' = keys /\ endKeys'[p] = keys
              /\ nextId' = nextId /\ newKey'[p] = NoKey
              /\ batch' = batch /\ orphans' = orphans]_vars

\* a run on a user with keys ended with the listing as its only, failed call
C13_Witness ==
    \E p \in Callers :
        /\ Failed(p) /\ log[p] = <<Event("listKeys", NoKey, "ListError")>>
        /\ keys # {} /\ endKeys[p] = keys

\* invocations of the handler in the run of caller p, settled or not
HandlerInvocations(p) ==
    Calls(p, "newKeyHandler") + (IF pc[p] = "handle" THEN 1 ELSE 0)

\* C16: the handler is invoked exactly once in a run in which a createKey succeeded and
\* never otherwise; it is invoked after that creation, with the key it returned, and
\* never a second time, also when self-heal retried the creation.
C16_HandlerOncePerCreatedKey ==
    \A p \in Callers :
        /\ HandlerInvocations(p) =
              Cardinality({i \in CreateEvents(p) : log[p][i].res = "ok"})
        /\ HandlerInvocations(p) <= 1
        /\ pc[p] = "handle" => LastEvent(p) = Event("createKey", newKey[p], "ok")
        /\ \A i \in 1..Len(log[p]) :
              log[p][i].op = "newKeyHandler" =>
                  /\ i > 1
                  /\ log[p][i - 1] = Event("createKey", log[p][i].key, "ok")
                  /\ log[p][i].key = newKey[p] /\ newKey[p] # NoKey

\* a run that went through self-heal ended with its handler invoked on the retried key
C16_Witness ==
    \E p \in Callers :
        /\ Done(p) /\ Calls(p, "selfHeal") = 1 /\ Calls(p, "createKey") = 2
        /\ Calls(p, "newKeyHandler") = 1

\* C15 as stated: over sequential runs, whatever failed before, the user never holds more
\* than MaxKeys keys and no run leaves 0 keys if there was a key before the first run.
C15_NeverLeftWithoutKeys ==
    /\ Cardinality(keys) <= MaxKeys
    /\ \A p \in Callers : (Done(p) /\ firstKeys # {}) => endKeys[p] # {}

\* C15 as amended: over sequential runs, whatever failed before, the user never holds
\* more than MaxKeys keys and, if there was an ACTIVE key before the first run, always
\* holds an ACTIVE key, so is never left with 0 keys.
C15_NeverLeftWithoutActiveKey ==
    /\ Cardinality(keys) <= MaxKeys
    /\ ActiveKeys(firstKeys) # {} =>
          /\ ActiveKeys(keys) # {}
          /\ \A p \in Callers : Done(p) => ActiveKeys(endKeys[p]) # {}

\* a second run ended in failure after a first run that had failed and left one of the
\* initial keys behind, for a user that had an ACTIVE key at the start
C15_Witness ==
    \E p \in Callers :
        /\ runs = 2 /\ Failed(p) /\ ListedOk(p)
        /\ KeyIds(listed[p]) \cap InitialIds # {}
        /\ Cardinality(listed[p]) = 2
        /\ ActiveKeys(firstKeys) # {}

\* the keys the filter argument of the latest deleteKeys call of caller p selects
Selected(p) ==
    IF filterArg[p].hasFilter
    THEN {k \in listed[p] : filterArg[p].filter[k]}
    ELSE listed[p]

\* the keys of the deleteAccessKey requests that answered to caller p
Answered(p) == {log[p][i].key : i \in {j \in 1..Len(log[p]) : log[p][j].op = "deleteKey"}}

\* C18: for every key list K and filter P, while no deletion errors, deleteKeys issues a
\* deletion for exactly the keys of K that pass P (all of K without a filter) and for no
\* other; it resolves with exactly those keys removed and every other key untouched.
C18_DeleteKeysFilter ==
    \A p \in Callers :
        (pc[p] # "deleteKeys" /\ NoDeleteFailed(p)) =>
            /\ batch[p] \cup Answered(p) = KeyIds(Selected(p))
            /\ batch[p] \cap Answered(p) = {}
            /\ keys = {k \in firstKeys : k.AccessKeyId \notin Answered(p)}
            /\ Done(p) =>
                  /\ Succeeded(p)
                  /\ batch[p] = {}
                  /\ endKeys[p] = {k \in firstKeys : k.AccessKeyId \notin KeyIds(Selected(p))}

\* deleteKeys resolved after a filter had picked one of two listed keys
C18_Witness ==
    \E p \in Callers :
        /\ Succeeded(p) /\ filterArg[p].hasFilter
        /\ Cardinality(listed[p]) = 2 /\ Cardinality(Selected(p)) = 1
        /\ Answered(p) = KeyIds(Selected(p))

\* the positions in the log of caller p of the failures that are not the first creation's:
\* a failed handler, a failed deletion after a creation succeeded (compensation, step 4)
LateFailures(p) ==
    {i \in 1..Len(log[p]) :
        /\ log[p][i].res # "ok"
        /\ \/ log[p][i].op = "newKeyHandler"
           \/ /\ log[p][i].op = "deleteKey"
              /\ \E c \in 1..(i - 1) : log[p][c].op = "createKey" /\ log[p][c].res = "ok"}

HandledBefore(p, i) ==
    \E h \in 1..(i - 1) :
        /\ log[p][h] = Event("newKeyHandler", newKey[p], "ok")
        /\ \E c \in 1..(h - 1) : log[p][c] = Event("createKey", newKey[p], "ok")

\* C22: every deletion of a run issued before its handler succeeded targets a key listed
\* INACTIVE (self-heal) or the new key (compensation); a deletion of a key listed ACTIVE
\* is issued only after the run created a new key and the handler succeeded on it.
C22_ActiveKeysDeletedOnlyAfterHandler ==
    \A p \in Callers :
        /\ \A i \in 1..Len(log[p]) :
              (log[p][i].op = "deleteKey" /\ ~HandledBefore(p, i)) =>
                  \/ log[p][i].key \in KeyIds(InactiveKeys(listed[p]))
                  \/ log[p][i].key = newKey[p] /\ newKey[p] # NoKey
        /\ \A i \in 1..Len(log[p]) :
              (/\ log[p][i].op = "deleteKey"
               /\ log[p][i].key \in KeyIds(ActiveKeys(listed[p]))) => HandledBefore(p, i)
        /\ pc[p] = "healWait" => batch[p] \subseteq KeyIds(InactiveKeys(listed[p]))
        /\ pc[p] = "rollbackWait" => batch[p] = {newKey[p]} /\ newKey[p] # NoKey
        /\ (batch[p] \cap KeyIds(ActiveKeys(listed[p])) # {}) =>
              /\ pc[p] = "cleanupWait"
              /\ HandledBefore(p, Len(log[p]) + 1)

\* a run that listed an ACTIVE and an INACTIVE key self-healed, had its new key handled
\* and then deleted the ACTIVE key
C22_Witness ==
    \E p \in Callers :
        /\ Done(p) /\ ListedMixedPair(p) /\ Calls(p, "selfHeal") = 1 /\ HandlerOk(p)
        /\ \E i \in CleanupEvents(p) :
              /\ log[p][i].res = "ok"
              /\ log[p][i].key \in KeyIds(ActiveKeys(listed[p]))

\* the positions in the log of caller p of the failed deletions of the self-heal batch:
\* those answered before any creation of the run succeeded
FailedHealDeletions(p) ==
    {i \in 1..Len(log[p]) :
        /\ log[p][i].op = "deleteKey" /\ log[p][i].res # "ok"
        /\ \A c \in 1..(i - 1) : ~(log[p][c].op = "createKey" /\ log[p][c].res = "ok")}

\* C23: if a deletion of the self-heal batch fails, createKey is not called again, the
\* handler is never invoked, and the run fails with the error of the deletion, not with
\* the error of the creation that triggered self-heal.
C23_SelfHealDeletionFailureEndsRun ==
    \A p \in Callers :
        \A i \in FailedHealDeletions(p) :
            /\ Failed(p)
            /\ Len(log[p]) = i
            /\ err[p] = log[p][i].res /\ err[p] # log[p][2].res
            /\ log[p][2].op = "createKey" /\ log[p][3].op = "selfHeal"
            /\ CreateCalls(p) = 1
            /\ HandlerInvocations(p) = 0 /\ newKey[p] = NoKey

\* a run listed two INACTIVE keys and ended when the second deletion of its self-heal
\* batch failed after the first had succeeded
C23_Witness ==
    \E p \in Callers :
        /\ Failed(p) /\ ListedTwoInactive(p) /\ Calls(p, "deleteKey") = 2
        /\ FailedHealDeletions(p) = {5}
        /\ log[p][4].res = "ok"

\* the positions in the log of caller p of the deletions of the key the run created
NewKeyDeletions(p) ==
    {i \in 1..Len(log[p]) :
        log[p][i].op = "deleteKey" /\ log[p][i].key = newKey[p] /\ newKey[p] # NoKey}

\* C24: in a run the new key is not among the listed keys, so it is in neither the
\* self-heal batch nor the step-4 batch; the only deletion issued for it is the
\* compensating one right after a handler failure, and after a handler success the run
\* never deletes it.
C24_NewKeyDeletedOnlyByCompensation ==
    \A p \in Callers :
        newKey[p] # NoKey =>
            /\ newKey[p] \notin KeyIds(listed[p])
            /\ pc[p] \in {"healWait", "cleanupWait"} => newKey[p] \notin batch[p]
            /\ newKey[p] \notin orphans
            /\ Cardinality(NewKeyDeletions(p)) <= 1
            /\ \A i \in NewKeyDeletions(p) :
                  log[p][i - 1] = Event("newKeyHandler", newKey[p], "HandlerError")
            /\ newKey[p] \in batch[p] =>
                  pc[p] = "rollbackWait" /\ LastEvent(p).res = "HandlerError"
            /\ HandlerOk(p) =>
                  /\ NewKeyDeletions(p) = {}
                  /\ newKey[p] \notin batch[p]
                  /\ CreatedKey(newKey[p]) \in keys

\* a run that listed an ACTIVE and an INACTIVE key succeeded after the deletion of
\* self-heal and the two deletions of step 4, and its new key is still there
C24_Witness ==
    \E p \in Callers :
        /\ Succeeded(p) /\ ListedMixedPair(p) /\ Calls(p, "selfHeal") = 1
        /\ Calls(p, "deleteKey") = 3
        /\ CreatedKey(newKey[p]) \in keys

\* caller p is waiting for the outcome of a deletion batch
AwaitingBatch(p) == pc[p] \in {"healWait", "cleanupWait", "rollbackWait", "deleteWait"}

\* C25: deleteKeys reports its result, success or failure, only after every deletion it
\* issued has completed: once the run has seen the outcome of a batch, no deletion of
\* that batch is still in flight.
C25_BatchOutcomeAfterAllDeletions ==
    \A p \in Callers :
        (SingleRun(p) /\ ~AwaitingBatch(p)) => orphans = {}

\* C26: deleteKeys is a fan-out/join, not a transaction: a deletion is issued for every
\* selected key whatever the other deletions answer, the batch fails if and only if a
\* deletion of it failed, and no key whose deletion succeeded comes back.
C26_FanOutJoin ==
    [][\A p \in Callers :
          \* every selected key gets its request when the batch is formed
          /\ pc[p] = "deleteKeys" =>
                /\ batch'[p] = KeyIds(Selected(p))'
                /\ orphans' = {} /\ log'[p] = <<>>
          \* an answer, failed or not, withdraws no other request of the batch
          /\ (AwaitingBatch(p) /\ log'[p] # log[p]) =>
                /\ batch[p] \ {LastEvent(p)'.key} \subseteq batch'[p] \cup orphans'
                /\ LastEvent(p)'.key \in batch[p]
                /\ orphans \subseteq orphans'
          \* the batch fails exactly when one of its deletions failed
          /\ Done(p)' =>
                /\ Failed(p)' <=> ~NoDeleteFailed(p)'
                /\ Failed(p)' => err'[p] = LastEvent(p)'.res
          /\ (AwaitingBatch(p)' /\ batch'[p] # {}) => NoDeleteFailed(p)'
          \* nothing is restored
          /\ keys' \subseteq keys]_vars

\* a batch of two deletions failed on its second answer after the first had removed a
\* key, and that key is still gone
C26_Witness ==
    \E p \in Callers :
        /\ Failed(p) /\ Len(log[p]) = 2
        /\ log[p][1].res = "ok" /\ log[p][2].res # "ok"
        /\ log[p][1].key \in KeyIds(firstKeys) /\ log[p][1].key \notin KeyIds(keys)
        /\ log[p][2].key \in KeyIds(keys)

\* the requests of each kind the run of caller p has issued, answered or not
ListCalls(p) == Calls(p, "listKeys") + (IF pc[p] = "list" THEN 1 ELSE 0)
DeleteCalls(p) ==
    Calls(p, "deleteKey") + Cardinality(batch[p]) +
    (IF SingleRun(p) THEN Cardinality(orphans) ELSE 0)

\* the run of caller p has started and not ended
Running(p) == pc[p] \notin {"idle", "done"}

\* C27: every run ends, in success or failure, provided each remote call and the handler
\* eventually answers, even if every createKey is rejected; a run issues at most 1
\* listKeys, 2 createKey, 1 handler call and, with K listed and I of them INACTIVE, at
\* most |I| + |K| + 1 deleteKey calls.
C27_RunTerminatesWithinBounds ==
    /\ \A p \in {1} : Running(p) ~> (Succeeded(p) \/ Failed(p))
    /\ [](\A p \in Callers :
            /\ ListCalls(p) <= 1
            /\ CreateCalls(p) <= 2
            /\ HandlerInvocations(p) <= 1
            /\ DeleteCalls(p) <=
                  Cardinality(InactiveKeys(listed[p])) + Cardinality(listed[p]) + 1)

\* a run ended after 1 listKeys, 2 createKey, 1 handler call and the 4 deletions of two
\* listed INACTIVE keys, by self-heal and again by step 4
C27_Witness ==
    \E p \in Callers :
        /\ Done(p) /\ ListedTwoInactive(p)
        /\ Calls(p, "listKeys") = 1 /\ Calls(p, "createKey") = 2
        /\ Calls(p, "newKeyHandler") = 1 /\ Calls(p, "deleteKey") = 4

\* C28: when runs of rotateKeys for the same user interleave freely, new keys being
\* created ACTIVE and nothing else changing the keys under the cap of MaxKeys, a user
\* that starts with an ACTIVE key has an ACTIVE key in every reachable state.
C28_InterleavedRunsKeepAnActiveKey ==
    /\ Cardinality(keys) <= MaxKeys
    /\ ActiveKeys(firstKeys) # {} => ActiveKeys(keys) # {}

\* two interleaved runs that both listed the same initial key both succeeded, the second
\* having listed and deleted the key the first one created
C28_Witness ==
    \E p, q \in Callers :
        /\ p # q /\ Succeeded(p) /\ Succeeded(q)
        /\ ActiveKeys(firstKeys) # {}
        /\ KeyIds(listed[p]) \cap KeyIds(listed[q]) # {}
        /\ newKey[p] \in KeyIds(listed[q])
        /\ keys = {CreatedKey(newKey[q])}

====
